---- MODULE Spec2Model ----
(***************************************************************************)
(* The scan-lifecycle scripts scripts/run_openvas_scan.py and              *)
(* scripts/hoge.py as a state machine.  One run of main() is a process r;  *)
(* the remote GVM object store is shared state; every GMP request is one   *)
(* step of the run together with the handling of its response up to the    *)
(* next request.                                                           *)
(*                                                                         *)
(* Text is a sequence of characters (one-character strings), names are     *)
(* sequences of tokens, so that strip(), find(), the base64 predicate and  *)
(* base64 decoding are computed, not assumed.                              *)
(***************************************************************************)
EXTENDS Integers, Sequences, FiniteSets, TLC

VARIABLES
    run,    \* run[r]: the local variables of main() in process r, and its log
    store,  \* the remote object store: port lists, targets, tasks
    fs      \* the files under REPORT_DIR: a set of [path, bytes]

vars == <<run, store, fs>>

(***************************************************************************)
(* Bounds of the model.                                                    *)
(***************************************************************************)
NumRuns == 2     \* processes that may be started one after another
MaxDiscoverPolls == 2  \* get_task requests of one run's report-id discovery
MaxStatusPolls == 2    \* get_task requests of one run's status loop

Runs == 1..NumRuns

(***************************************************************************)
(* Python values.                                                          *)
(***************************************************************************)
None == "<None>"

\* a slip: a missing id is not noticed
NeverFalsy(x) == FALSE

\* a slip: x is None, which lets the empty id through
NoneOnly(x) == x = None

\* a slip: every id is taken for missing
AlwaysFalsy(x) == TRUE

\* `not x` for an id: None and the empty string are falsy.
Falsy(x) == x \in {None, ""}

Scripts == {"run_openvas_scan", "hoge"}

\* sys.exit(1); an uncaught exception ends the interpreter with status 1 too.
ExitFailure == 1
ExitSuccess == 0

\* the environment defaults and the fixed format id
REPORT_DIR == "openvas_reports"
TASK_NAME_PREFIX == "GitHub Actions Scan"
PdfFormatId == "c402cc3e-b531-11e1-9163-406186ea4fc5"

\* SCAN_TARGETS of every run, and a host list it is a proper prefix of
SCAN_TARGETS == <<"10.0.0.5">>
OtherHosts == <<"10.0.0.5", "0">>

\* f"GA Target: {SCAN_TARGETS}"
TargetName(hosts) == <<"GA Target: ">> \o hosts

\* f"{TASK_NAME_PREFIX} ({SCAN_TARGETS})"
TaskName(hosts) == <<TASK_NAME_PREFIX, " (">> \o hosts \o <<")">>

DefaultPortListName == <<"OpenVAS Default">>

\* filter_string=f'name="{...}"'
NameFilter(name) == [column |-> "name", value |-> name]

\* no filter_string argument
NoFilter == [column |-> "", value |-> <<>>]

(***************************************************************************)
(* The remote store.  It answers a filtered lookup with the objects whose  *)
(* name matches, in store order; store.loose says whether the server's     *)
(* filter language matches a name by prefix as well as exactly.            *)
(***************************************************************************)
IsPrefix(p, s) == Len(p) <= Len(s) /\ SubSeq(s, 1, Len(p)) = p

ServerMatches(filter, name, loose) ==
    \/ filter = NoFilter
    \/ name = filter.value
    \/ loose /\ IsPrefix(filter.value, name)

RECURSIVE SelectSeq2(_, _, _)
SelectSeq2(s, filter, loose) ==
    IF s = <<>> THEN <<>>
    ELSE LET rest == SelectSeq2(Tail(s), filter, loose)
         IN  IF ServerMatches(filter, Head(s).name, loose)
             THEN <<Head(s)>> \o rest ELSE rest

\* the response of get_port_lists / get_targets: the matching objects
Lookup(objects, filter) == SelectSeq2(objects, filter, store.loose)

\* xpath("port_list/@id"): the id attributes in document order
XPathIds(objects) == [i \in 1..Len(objects) |-> objects[i].id]

TargetIds == <<"T1", "T2", "T3", "T4", "T5", "T6">>
TaskIds == <<"J1", "J2", "J3", "J4">>

PortList(id, name) == [id |-> id, name |-> name]

Target(id, name) == [id |-> id, name |-> name, port_list_id |-> "P1"]

\* The stores a run may find: every shape of the port lists with no target
\* yet, and every shape of the targets with a default port list.  A server
\* with loose matching is told apart only by a target of a longer name.
DefaultPortLists ==
    << PortList("P1", <<"All IANA">>), PortList("P2", DefaultPortListName) >>

PortListStores ==
    { <<>>,
      DefaultPortLists,
      << PortList("P1", DefaultPortListName), PortList("P2", DefaultPortListName) >>,
      << PortList("P1", <<"All IANA">>), PortList("P2", <<"All TCP">>) >> }

TargetStores ==
    { << Target("T1", TargetName(SCAN_TARGETS)) >>,
      << Target("T1", TargetName(SCAN_TARGETS)),
         Target("T2", TargetName(SCAN_TARGETS)) >>,
      << Target("T1", TargetName(OtherHosts)) >> }

Store(pl, tg, loose, mode) ==
    [port_lists |-> pl, targets |-> tg, tasks |-> <<>>, loose |-> loose,
     server |-> mode]

InitStores(mode) ==
    {Store(pl, <<>>, FALSE, mode) : pl \in PortListStores}
    \cup {Store(DefaultPortLists, tg, FALSE, mode) : tg \in TargetStores}
    \cup {Store(DefaultPortLists, <<Target("T1", TargetName(OtherHosts))>>,
                TRUE, mode)}

\* What the server is left free in (store.server), the rest following one
\* scripted course.  "free_stores": any store of InitStores; the task takes
\* the scripted course and the report is a PDF.  "free_tasks": any
\* start_task and get_task response, and a report of each outcome.
\* "free_reports": any report.
ServerModes == {"free_stores", "free_tasks", "free_reports"}

\* the store of the runs whose server is free in something else
PlainStore(mode) == Store(DefaultPortLists, <<>>, FALSE, mode)

(***************************************************************************)
(* What a request gives back: a response, or the client raises.            *)
(***************************************************************************)
Reply(body) == [raised |-> FALSE, body |-> body]
Raised == [raised |-> TRUE, body |-> <<>>]

(***************************************************************************)
(* The log of a run: the requests it issued, the sleeps, the file writes,  *)
(* each with the program position it was issued at, what it was given and  *)
(* what came back (or that the client raised).                             *)
(***************************************************************************)
Entry(at, op, arg, res) ==
    [at |-> at, op |-> op, arg |-> arg, raised |-> FALSE, res |-> res]

Count(log, op) == Cardinality({i \in 1..Len(log) : log[i].op = op})

\* the requests op issued from program position at
CountAt(log, at, op) ==
    Cardinality({i \in 1..Len(log) : log[i].op = op /\ log[i].at = at})

Ops(log) == [i \in 1..Len(log) |-> log[i].op]

Terminated(r) == run[r].pc \in {"done", "failed", "crashed", "killed"}

InitRun(script) ==
    [ pc |-> "start", script |-> script,
      port_list_id |-> None, target_id |-> None, task_id |-> None,
      report_ids |-> <<>>, report_id |-> None, task |-> None,
      status |-> None,
      pdf_bytes |-> <<>>, exit_code |-> None, log |-> <<>> ]

\* A later run starts only when the earlier ones have ended.
MayStart(r) == \A q \in Runs : q < r => Terminated(q)

Init ==
    /\ \E s \in Scripts : run = [r \in Runs |-> InitRun(s)]
    /\ store \in InitStores("free_stores")
                \cup {PlainStore("free_tasks"), PlainStore("free_reports")}
    /\ fs = {}

\* run r at pc with its log extended by one entry
At(r, pc, e) == [run[r] EXCEPT !.pc = pc, !.log = Append(@, e)]

\* sys.exit(1) after the request logged as e
Fail(r, e) == [run[r] EXCEPT !.pc = "failed", !.exit_code = ExitFailure,
                             !.log = Append(@, e)]

\* the client raised on the request: main() catches nothing, the process dies
Crash(r, op, arg) ==
    [run[r] EXCEPT !.pc = "crashed", !.exit_code = ExitFailure,
                   !.log = Append(@, [Entry(run[r].pc, op, arg, <<>>)
                                         EXCEPT !.raised = TRUE])]

\* gmp.authenticate(GMP_USER, GMP_PASSWORD)
Authenticate(r) ==
    /\ run[r].pc = "start"
    /\ \E resp \in {Reply(<<>>), Raised} :
          run' = [run EXCEPT ![r] =
                    IF resp.raised THEN Crash(r, "authenticate", <<>>)
                    ELSE At(r, "port_lists", Entry(run[r].pc, "authenticate", <<>>, "ok"))]
    /\ UNCHANGED <<store, fs>>

\* a slip: the last id, ids[-1]
LastOf(ids) == ids[Len(ids)]

\* port_list_ids[0], report_ids[0]
First(ids) == ids[1]

\* gmp.get_port_lists(filter_string='name="OpenVAS Default"') and the test
\* of its result
GetPortLists(r) ==
    /\ run[r].pc = "port_lists"
    /\ LET filter == NameFilter(DefaultPortListName)
       IN \E resp \in {Reply(Lookup(store.port_lists, filter)), Raised} :
          LET ids == XPathIds(resp.body)
              e == Entry(run[r].pc, "get_port_lists", filter, ids)
          IN run' = [run EXCEPT ![r] =
                IF resp.raised THEN Crash(r, "get_port_lists", filter)
                ELSE IF ids = <<>> THEN At(r, "port_lists_all", e)
                ELSE [At(r, "get_targets", e) EXCEPT !.port_list_id = First(ids)]]
    /\ UNCHANGED <<store, fs>>

\* The ids the second lookup leaves in port_list_ids.  run_openvas_scan.py
\* assigns the unfiltered result to it; hoge.py assigns the result of
\* get_port_list() to port_list and re-reads the first, empty response into
\* ort_list_ids, so port_list_ids stays empty.
FallbackIds(script, objects) ==
    IF script = "hoge" THEN <<>> ELSE XPathIds(objects)

\* the request of the second lookup
FallbackOp(script) ==
    IF script = "hoge" THEN "get_port_list" ELSE "get_port_lists"

\* the unfiltered lookup after an empty filtered one, and the test of it
GetPortListsAll(r) ==
    /\ run[r].pc = "port_lists_all"
    /\ LET op == FallbackOp(run[r].script)
       IN \E resp \in {Reply(Lookup(store.port_lists, NoFilter)), Raised} :
          LET ids == FallbackIds(run[r].script, resp.body)
              e == Entry(run[r].pc, op, NoFilter, XPathIds(resp.body))
          IN run' = [run EXCEPT ![r] =
                IF resp.raised THEN Crash(r, op, NoFilter)
                ELSE IF ids = <<>> THEN Fail(r, e)
                ELSE [At(r, "get_targets", e) EXCEPT !.port_list_id = First(ids)]]
    /\ UNCHANGED <<store, fs>>

\* a slip: the lookup result is never used
NeverReuse(objects) == None

\* target_id = None; for t in targets.xpath("target"): target_id = t.get("id")
SelectTarget(objects) ==
    IF objects = <<>> THEN None ELSE objects[Len(objects)].id

\* gmp.get_targets(filter_string=f'name="{target_name}"') and the choice
\* between reuse and creation
GetTargets(r) ==
    /\ run[r].pc = "get_targets"
    /\ LET filter == NameFilter(TargetName(SCAN_TARGETS))
       IN \E resp \in {Reply(Lookup(store.targets, filter)), Raised} :
          LET id == SelectTarget(resp.body)
              e == Entry(run[r].pc, "get_targets", filter, resp.body)
          IN run' = [run EXCEPT ![r] =
                IF resp.raised THEN Crash(r, "get_targets", filter)
                ELSE IF Falsy(id) THEN At(r, "create_target", e)
                ELSE [At(r, "create_task", e) EXCEPT !.target_id = id]]
    /\ UNCHANGED <<store, fs>>

\* what the server does with create_target: it stores the target under a
\* fresh id and answers with it, or it stores nothing and answers without
\* an id, or the client raises
CreateTargetOutcomes(args) ==
    LET fresh == TargetIds[Len(store.targets) + 1]
        new == [id |-> fresh, name |-> args.name,
                port_list_id |-> args.port_list_id]
    IN { [resp |-> Reply(fresh), targets |-> Append(store.targets, new)],
         [resp |-> Reply(None), targets |-> store.targets],
         [resp |-> Reply(""), targets |-> store.targets],
         [resp |-> Raised, targets |-> store.targets] }

\* gmp.create_target(name=, hosts=, port_list_id=) and the test of its id
CreateTarget(r) ==
    /\ run[r].pc = "create_target"
    /\ LET args == [name |-> TargetName(SCAN_TARGETS), hosts |-> SCAN_TARGETS,
                    port_list_id |-> run[r].port_list_id]
       IN \E o \in CreateTargetOutcomes(args) :
          LET id == o.resp.body
              e == Entry(run[r].pc, "create_target", args, id)
          IN /\ run' = [run EXCEPT ![r] =
                   IF o.resp.raised THEN Crash(r, "create_target", args)
                   ELSE IF Falsy(id) THEN [Fail(r, e) EXCEPT !.target_id = id]
                   ELSE [At(r, "create_task", e) EXCEPT !.target_id = id]]
             /\ store' = [store EXCEPT !.targets = o.targets]
    /\ UNCHANGED fs

Statuses == {"Requested", "Running", "Done", "Stopped", "Interrupted"}

\* the report ids a start_task response may carry
StartReportIds == { <<>>, <<"R1", "R2">> }

\* the last-report ids a get_task response may carry
LastReportIds == { <<>>, <<"R2", "R1">> }

\* a get_task response: task/status/text() and task/last_report/report/@id
Snapshot(status, ids) == [status |-> status, last_report |-> ids]

\* The task a scripted server runs: no report id in the start response, a
\* last report from the second get_task on, Done from the fourth on.
ScriptedSnapshot(k) ==
    Snapshot(IF k = 1 THEN "Requested" ELSE IF k < 4 THEN "Running" ELSE "Done",
             IF k = 1 THEN <<>> ELSE <<"R1">>)

\* what start_task may answer: the report ids of the response
StartResponses ==
    IF store.server = "free_tasks"
    THEN {Reply(ids) : ids \in StartReportIds} \cup {Raised}
    ELSE {Reply(<<>>)}

\* what the next get_task of run r may answer
TaskResponses(r) ==
    IF store.server = "free_tasks"
    THEN {Reply(Snapshot(st, ids)) : st \in Statuses, ids \in LastReportIds}
            \cup {Raised}
    ELSE {Reply(ScriptedSnapshot(Count(run[r].log, "get_task") + 1))}

\* a slip: the task is created without the target
TaskArgsWithoutTarget(script, target_id) ==
    [name |-> TaskName(SCAN_TARGETS), config_id |-> "SCAN_CONFIG_ID",
     target_id |-> None, scanner_id |-> "SCANNER_ID"]

\* the keyword arguments of create_task as each script spells them
CreateTaskArgs(script, target_id) ==
    IF script = "hoge"
    THEN [nams |-> TaskName(SCAN_TARGETS), config_id |-> "SCAN_CONFIG_ID",
          target_id |-> target_id, scammer_id |-> "SCANNER_ID"]
    ELSE [name |-> TaskName(SCAN_TARGETS), config_id |-> "SCAN_CONFIG_ID",
          target_id |-> target_id, scanner_id |-> "SCANNER_ID"]

\* what the server does with create_task: as with create_target
CreateTaskOutcomes(args) ==
    LET fresh == TaskIds[Len(store.tasks) + 1]
        new == [id |-> fresh,
                name |-> IF "name" \in DOMAIN args THEN args.name ELSE <<>>,
                target_id |-> args.target_id]
    IN { [resp |-> Reply(fresh), tasks |-> Append(store.tasks, new)],
         [resp |-> Reply(None), tasks |-> store.tasks],
         [resp |-> Reply(""), tasks |-> store.tasks],
         [resp |-> Raised, tasks |-> store.tasks] }

\* gmp.create_task(...) and the test of its id; no lookup comes before it
CreateTask(r) ==
    /\ run[r].pc = "create_task"
    /\ LET args == CreateTaskArgs(run[r].script, run[r].target_id)
       IN \E o \in CreateTaskOutcomes(args) :
          LET id == o.resp.body
              e == Entry(run[r].pc, "create_task", args, id)
          IN /\ run' = [run EXCEPT ![r] =
                   IF o.resp.raised THEN Crash(r, "create_task", args)
                   ELSE IF Falsy(id) THEN [Fail(r, e) EXCEPT !.task_id = id]
                   ELSE [At(r, "start_task", e) EXCEPT !.task_id = id]]
             /\ store' = [store EXCEPT !.tasks = o.tasks]
    /\ UNCHANGED fs

\* a slip: the start response is never trusted
AlwaysDiscover(ids) == TRUE

\* not report_ids
NoReportId(ids) == ids = <<>>

\* gmp.start_task(task_id); report_ids = start_resp.xpath(".//report/@id");
\* with a report id the discovery loop is skipped and report_id is set
StartTask(r) ==
    /\ run[r].pc = "start_task"
    /\ \E resp \in StartResponses :
          LET ids == resp.body
              e == Entry(run[r].pc, "start_task", run[r].task_id, ids)
          IN run' = [run EXCEPT ![r] =
                IF resp.raised THEN Crash(r, "start_task", run[r].task_id)
                ELSE IF NoReportId(ids)
                     THEN [At(r, "discover_poll", e) EXCEPT !.report_ids = ids]
                     ELSE [At(r, "status_poll", e) EXCEPT
                              !.report_ids = ids, !.report_id = First(ids)]]
    /\ UNCHANGED <<store, fs>>

\* a slip: Interrupted forgotten
StoppedOnly(status) == status = "Stopped"

\* status in ("Stopped", "Interrupted")
StoppedBeforeReport(status) == status \in {"Stopped", "Interrupted"}

\* one pass of the discovery loop up to its break, its sys.exit(1) or its
\* sleep: get_task, the test of last_report, the test of the status
DiscoverPoll(r) ==
    /\ run[r].pc = "discover_poll"
    /\ CountAt(run[r].log, "discover_poll", "get_task") < MaxDiscoverPolls
    /\ \E resp \in TaskResponses(r) :
          LET snap == resp.body
              e == Entry(run[r].pc, "get_task", run[r].task_id, snap)
          IN run' = [run EXCEPT ![r] =
                IF resp.raised THEN Crash(r, "get_task", run[r].task_id)
                ELSE IF snap.last_report # <<>>
                THEN [At(r, "status_poll", e) EXCEPT
                         !.task = snap, !.status = snap.status,
                         !.report_ids = snap.last_report,
                         !.report_id = First(snap.last_report)]
                ELSE IF StoppedBeforeReport(snap.status)
                THEN [Fail(r, e) EXCEPT !.task = snap, !.status = snap.status]
                ELSE [At(r, "discover_sleep", e) EXCEPT
                         !.task = snap, !.status = snap.status]]
    /\ UNCHANGED <<store, fs>>

\* time.sleep(POLL_INTERVAL) at the end of a pass of the discovery loop
DiscoverSleep(r) ==
    /\ run[r].pc = "discover_sleep"
    /\ run' = [run EXCEPT ![r] =
                 At(r, "discover_poll", Entry(run[r].pc, "sleep", <<>>, <<>>))]
    /\ UNCHANGED <<store, fs>>

\* a slip: only Done ends the wait
DoneOnly(status) == status = "Done"

\* status in ("Done", "Stopped", "Interrupted")
IsTerminal(status) == status \in {"Done", "Stopped", "Interrupted"}

\* one pass of the status loop up to its break or its sleep.  Only the
\* status (and the progress, which is printed) is read from the response,
\* and only the status is logged; task holds the whole response.
StatusPoll(r) ==
    /\ run[r].pc = "status_poll"
    /\ CountAt(run[r].log, "status_poll", "get_task") < MaxStatusPolls
    /\ \E resp \in TaskResponses(r) :
          LET snap == resp.body
              e == Entry(run[r].pc, "get_task", run[r].task_id, snap.status)
          IN run' = [run EXCEPT ![r] =
                IF resp.raised THEN Crash(r, "get_task", run[r].task_id)
                ELSE IF IsTerminal(snap.status)
                THEN [At(r, IF run[r].script = "hoge" THEN "fetch_report"
                                                       ELSE "get_report", e)
                         EXCEPT !.task = snap, !.status = snap.status]
                ELSE [At(r, "status_sleep", e) EXCEPT
                         !.task = snap, !.status = snap.status]]
    /\ UNCHANGED <<store, fs>>

\* time.sleep(POLL_INTERVAL) at the end of a pass of the status loop
StatusSleep(r) ==
    /\ run[r].pc = "status_sleep"
    /\ run' = [run EXCEPT ![r] =
                 At(r, "status_poll", Entry(run[r].pc, "sleep", <<>>, <<>>))]
    /\ UNCHANGED <<store, fs>>

(***************************************************************************)
(* Text.  A character is a one-character string; "U+00E9" stands for the   *)
(* letter e with an acute accent, which str.isalnum() accepts and ASCII    *)
(* does not hold.                                                          *)
(***************************************************************************)
B64Alphabet ==
    << "A", "B", "C", "D", "E", "F", "G", "H", "I", "J", "K", "L", "M",
       "N", "O", "P", "Q", "R", "S", "T", "U", "V", "W", "X", "Y", "Z",
       "a", "b", "c", "d", "e", "f", "g", "h", "i", "j", "k", "l", "m",
       "n", "o", "p", "q", "r", "s", "t", "u", "v", "w", "x", "y", "z",
       "0", "1", "2", "3", "4", "5", "6", "7", "8", "9", "+", "/" >>

B64Chars == {B64Alphabet[i] : i \in 1..Len(B64Alphabet)}

\* the value of each base64 digit
B64Values ==
    [c \in B64Chars |-> (CHOOSE i \in 1..Len(B64Alphabet) : B64Alphabet[i] = c) - 1]

B64Value(c) == B64Values[c]

NonAsciiLetters == {"U+00E9"}

AlnumChars == (B64Chars \ {"+", "/"}) \cup NonAsciiLetters

\* c.isalnum()
IsAlnum(c) == c \in AlnumChars

\* the characters str.strip() removes
IsSpace(c) == c \in {" ", "\n", "\t"}

RECURSIVE LStrip(_)
LStrip(s) == IF s # <<>> /\ IsSpace(Head(s)) THEN LStrip(Tail(s)) ELSE s

RECURSIVE RStrip(_)
RStrip(s) ==
    IF s # <<>> /\ IsSpace(s[Len(s)]) THEN RStrip(SubSeq(s, 1, Len(s) - 1)) ELSE s

\* txt.strip()
Strip(s) == RStrip(LStrip(s))

\* s.find(pat): the 0-based index of the first occurrence of pat, or -1
Find(s, pat) ==
    LET hits == {i \in 1..(Len(s) - Len(pat) + 1) :
                    SubSeq(s, i, i + Len(pat) - 1) = pat}
    IN IF hits = {} THEN -1
       ELSE (CHOOSE i \in hits : \A j \in hits : i <= j) - 1

\* the threshold of the base64 check
MinB64Len == 200

\* c.isalnum() or c in "+/="
PlausibleChar(c) == IsAlnum(c) \/ c \in {"+", "/", "="}

\* len(candidate) > 200 and all(c.isalnum() or c in "+/=" for c in candidate)
Plausible(candidate) ==
    /\ Len(candidate) > MinB64Len
    /\ \A i \in 1..Len(candidate) : PlausibleChar(candidate[i])

(***************************************************************************)
(* base64.b64decode(s) with validate=False: a str that is not ASCII is a   *)
(* ValueError; binascii.a2b_base64 then skips what is no base64 digit,     *)
(* stops at a pad that completes a group (the first "=" after three digits *)
(* of a group, the second after two), and raises when the digits it read   *)
(* do not fill their last group of four.                                   *)
(***************************************************************************)
DecodeError == [ok |-> FALSE, bytes |-> <<>>]
Decoded(bytes) == [ok |-> TRUE, bytes |-> bytes]

IsB64Digit(c) == c \in B64Chars

\* the base64 digits among the first n characters of s
Digits(s, n) == SelectSeq(SubSeq(s, 1, n), IsB64Digit)

\* quad_pos when s[i] is read
QuadPos(s, i) == Len(Digits(s, i - 1)) % 4

\* pads when s[i] is read: the "=" since the last digit, counted while
\* quad_pos >= 2
Pads(s, i) ==
    IF QuadPos(s, i) < 2 THEN 0
    ELSE Cardinality({j \in 1..(i - 1) :
            /\ s[j] = "="
            /\ \A k \in (j + 1)..(i - 1) : ~IsB64Digit(s[k])})

\* the positions where a2b_base64 stops reading
PadStops(s) ==
    {i \in 1..Len(s) :
        s[i] = "=" /\ QuadPos(s, i) >= 2 /\ QuadPos(s, i) + Pads(s, i) + 1 >= 4}

\* the bytes of the digits d: three for each full group of four, one for
\* two digits of a last group, two for three
BytesOf(d) ==
    LET n == Len(d)
        count == 3 * (n \div 4) + (IF n % 4 = 0 THEN 0 ELSE (n % 4) - 1)
        v(i) == B64Value(d[i])
    IN [k \in 1..count |->
          LET g == 4 * ((k - 1) \div 3)
              j == (k - 1) % 3
          IN CASE j = 0 -> v(g + 1) * 4 + (v(g + 2) \div 16)
               [] j = 1 -> (v(g + 2) % 16) * 16 + (v(g + 3) \div 4)
               [] j = 2 -> (v(g + 3) % 4) * 64 + v(g + 4)]

A2B(s) ==
    LET stops == PadStops(s)
    IN IF stops # {}
       THEN LET stop == CHOOSE i \in stops : \A j \in stops : i <= j
            IN Decoded(BytesOf(Digits(s, stop - 1)))
       ELSE IF Len(Digits(s, Len(s))) % 4 = 0
            THEN Decoded(BytesOf(Digits(s, Len(s))))
            ELSE DecodeError

B64Decode(s) ==
    IF \E i \in 1..Len(s) : s[i] \in NonAsciiLetters THEN DecodeError
    ELSE A2B(s)

(***************************************************************************)
(* The get_report response: its report nodes in document order.  A node    *)
(* has a text or none (node.text is None), and rest, the text of its       *)
(* descendants and their tails as itertext() yields it after node.text.    *)
(***************************************************************************)
Node(text) == [has_text |-> TRUE, text |-> text, rest |-> <<>>]
NodeWithTail(rest) == [has_text |-> FALSE, text |-> <<>>, rest |-> rest]

Rep(n, c) == [i \in 1..n |-> c]

Jvber == <<"J", "V", "B", "E", "R">>

Valid199 == Rep(199, "A")
Valid200 == Rep(200, "A")
Valid201 == Rep(201, "A")
Valid204 == Rep(204, "A")
Other204 == Rep(204, "B")
Spaced201 == Rep(100, "A") \o <<" ">> \o Rep(100, "A")
Padded204 == <<" ">> \o Rep(204, "C") \o <<"\n">>
Accent204 == Rep(203, "A") \o <<"U+00E9">>
Pdf204 == Jvber \o Rep(199, "i")
ShortPdf == Jvber \o <<"i", "0", "x">>
XmlText == << "<", "r", "e", "p", "o", "r", "t", ">", "o", "k",
              "<", "/", "r", "e", "p", "o", "r", "t", ">" >>

\* base64.b64encode(b), the text a report node carries for the bytes b:
\* four digits for three bytes, "=" in place of the digits of missing bytes
B64Encode(b) ==
    LET n == Len(b)
        byte(i) == IF i <= n THEN b[i] ELSE 0
    IN [k \in 1..(4 * ((n + 2) \div 3)) |->
          LET g == 3 * ((k - 1) \div 4)
              j == (k - 1) % 4
              v == CASE j = 0 -> byte(g + 1) \div 4
                     [] j = 1 -> (byte(g + 1) % 4) * 16 + (byte(g + 2) \div 16)
                     [] j = 2 -> (byte(g + 2) % 16) * 4 + (byte(g + 3) \div 64)
                     [] j = 3 -> byte(g + 3) % 64
          IN IF (j = 2 /\ g + 2 > n) \/ (j = 3 /\ g + 3 > n) THEN "="
             ELSE B64Alphabet[v + 1]]

\* the bytes of "%PDF-"
PdfMagic == <<37, 80, 68, 70, 45>>

\* byte strings a report may carry: three bytes, 150, 151 and 152 bytes
\* of no file type, "%PDF-1" and a PDF of 153 bytes
Payloads ==
    { <<77, 97, 110>>,
      [i \in 1..150 |-> (i * 37) % 256],
      [i \in 1..151 |-> (i * 37) % 256],
      [i \in 1..152 |-> (i * 41) % 256],
      PdfMagic \o <<49>>,
      PdfMagic \o [i \in 1..148 |-> (i * 43) % 256] }

\* the report whose one node carries the encoding of each payload
EncodedBodies == [b \in Payloads |-> << Node(B64Encode(b)) >>]

ReportBodies ==
    {EncodedBodies[b] : b \in Payloads} \cup
    { <<>>,
      << [has_text |-> FALSE, text |-> <<>>, rest |-> <<>>] >>,
      << Node(Valid199) >>,
      << Node(Valid200) >>,
      << Node(Valid201) >>,
      << Node(Spaced201) >>,
      << Node(Accent204) >>,
      << Node(Padded204) >>,
      << Node(Valid199), Node(Other204), Node(Valid204) >>,
      << Node(Pdf204) >>,
      << Node(ShortPdf) >>,
      << NodeWithTail(Pdf204) >>,
      << Node(XmlText) >> }

\* one report of each kind of outcome of the extraction
CoreReportBodies ==
    { <<>>, << Node(Valid199) >>, << Node(Valid201) >>, << Node(Pdf204) >> }

\* what get_report may answer
ReportResponses ==
    CASE store.server = "free_reports" ->
            {Reply(b) : b \in ReportBodies} \cup {Raised}
      [] store.server = "free_tasks" ->
            {Reply(b) : b \in CoreReportBodies} \cup {Raised}
      [] OTHER -> {Reply(<< Node(Pdf204) >>)}

\* the arguments of both get_report requests
ReportArgs(report_id) ==
    [report_id |-> report_id, details |-> TRUE, report_format_id |-> PdfFormatId]

\* run_openvas_scan.py fetches the report twice; the first response is
\* printed and overwritten by the second
GetReport(r) ==
    /\ run[r].pc = "get_report"
    /\ LET args == ReportArgs(run[r].report_id)
       IN \E raised \in BOOLEAN :
          run' = [run EXCEPT ![r] =
                IF raised THEN Crash(r, "get_report", args)
                ELSE At(r, "fetch_report",
                        Entry(run[r].pc, "get_report", args, "discarded"))]
    /\ UNCHANGED <<store, fs>>

\* the loop over report_nodes of run_openvas_scan.py: the stripped text of
\* the first node whose text passes the check, or None ([ok |-> FALSE])
RECURSIVE FirstPlausible(_)
FirstPlausible(nodes) ==
    IF nodes = <<>> THEN [ok |-> FALSE, data |-> <<>>]
    ELSE LET node == Head(nodes)
             candidate == Strip(node.text)
         IN IF node.has_text /\ node.text # <<>> /\ candidate # <<>>
               /\ Plausible(candidate)
            THEN [ok |-> TRUE, data |-> candidate]
            ELSE FirstPlausible(Tail(nodes))

\* "".join(node.itertext())
IterText(node) == (IF node.has_text THEN node.text ELSE <<>>) \o node.rest

\* hoge.py: the text of the first node from the first "JVBER" on
FromJvber(nodes) ==
    LET full_text == Strip(IterText(nodes[1]))
        start_index == Find(full_text, Jvber)
    IN IF start_index = -1 THEN [ok |-> FALSE, data |-> <<>>]
       ELSE [ok |-> TRUE,
             data |-> Strip(SubSeq(full_text, start_index + 1, Len(full_text)))]

\* b64_data as each script finds it in the report nodes
SelectPayload(script, nodes) ==
    IF script = "hoge" THEN FromJvber(nodes) ELSE FirstPlausible(nodes)

\* From the report nodes to the bytes to write: "no_nodes", "no_base64"
\* and "decode_error" are the three sys.exit(1) of the extraction.
Extract(script, nodes) ==
    IF nodes = <<>> THEN [outcome |-> "no_nodes", bytes |-> <<>>]
    ELSE LET b64_data == SelectPayload(script, nodes)
         IN IF ~b64_data.ok \/ b64_data.data = <<>>
            THEN [outcome |-> "no_base64", bytes |-> <<>>]
            ELSE LET pdf == B64Decode(b64_data.data)
                 IN IF pdf.ok THEN [outcome |-> "ok", bytes |-> pdf.bytes]
                    ELSE [outcome |-> "decode_error", bytes |-> <<>>]

\* Extract on every report the server may answer with, evaluated once
Extractions ==
    {<<sc, b, Extract(sc, b)>> : sc \in Scripts, b \in ReportBodies}

\* Extract(script, nodes), looked up
Extraction(script, nodes) ==
    (CHOOSE x \in Extractions : x[1] = script /\ x[2] = nodes)[3]

\* gmp.get_report(report_id, details=True, report_format_id=PDF), the search
\* for the payload and its decoding
FetchReport(r) ==
    /\ run[r].pc = "fetch_report"
    /\ LET args == ReportArgs(run[r].report_id)
       IN \E resp \in ReportResponses :
          LET x == Extraction(run[r].script, resp.body)
              e == Entry(run[r].pc, "get_report", args, resp.body)
          IN run' = [run EXCEPT ![r] =
                IF resp.raised THEN Crash(r, "get_report", args)
                ELSE IF x.outcome # "ok" THEN Fail(r, e)
                ELSE [At(r, "write", e) EXCEPT !.pdf_bytes = x.bytes]]
    /\ UNCHANGED <<store, fs>>

\* a slip: one file name for every report
FixedOutFile(report_id) == <<REPORT_DIR, "/", "report", ".pdf">>

\* os.path.join(REPORT_DIR, f"{report_id}.pdf")
OutFile(report_id) == <<REPORT_DIR, "/", report_id, ".pdf">>

\* os.makedirs, open(outfile, "wb"), f.write(pdf_bytes); main() returns
WriteFile(r) ==
    /\ run[r].pc = "write"
    /\ LET outfile == OutFile(run[r].report_id)
           file == [path |-> outfile, bytes |-> run[r].pdf_bytes]
       IN /\ fs' = {f \in fs : f.path # outfile} \cup {file}
          /\ run' = [run EXCEPT ![r] =
                [At(r, "done", Entry(run[r].pc, "write", outfile, <<>>))
                    EXCEPT !.exit_code = ExitSuccess]]
    /\ UNCHANGED store

Next1(r) ==
    \/ Authenticate(r)
    \/ GetPortLists(r)
    \/ GetPortListsAll(r)
    \/ GetTargets(r)
    \/ CreateTarget(r)
    \/ CreateTask(r)
    \/ StartTask(r)
    \/ DiscoverPoll(r)
    \/ DiscoverSleep(r)
    \/ StatusPoll(r)
    \/ StatusSleep(r)
    \/ GetReport(r)
    \/ FetchReport(r)
    \/ WriteFile(r)

\* one run, from its start to its exit
Next == Next1(1)

Spec == Init /\ [][Next]_vars

(***************************************************************************)
(* Runs one after another against one store: a run starts when the one     *)
(* before it has exited or was killed.  Nothing but the store and the      *)
(* files outlives a run.  The stores hold no target of the name the runs   *)
(* look up; the tasks take the scripted course.                            *)
(***************************************************************************)
\* the process is terminated from outside, at any point of main()
Kill(r) ==
    /\ run[r].pc \notin {"waiting", "start", "done", "failed", "crashed", "killed"}
    /\ run' = [run EXCEPT ![r].pc = "killed"]
    /\ UNCHANGED <<store, fs>>

InitSeq ==
    /\ run \in [Runs -> {[InitRun(s) EXCEPT !.pc = "waiting"] : s \in Scripts}]
    /\ store \in {Store(pl, <<>>, FALSE, "free_stores") : pl \in PortListStores}
                \cup {Store(DefaultPortLists,
                            <<Target("T1", TargetName(OtherHosts))>>,
                            FALSE, "free_stores")}
    /\ fs = {}

\* the next invocation of the script
Start(r) ==
    /\ run[r].pc = "waiting"
    /\ MayStart(r)
    /\ run' = [run EXCEPT ![r].pc = "start"]
    /\ UNCHANGED <<store, fs>>

NextSeq == \E r \in Runs : Next1(r) \/ Kill(r) \/ Start(r)

SpecSeq == InitSeq /\ [][NextSeq]_vars

(***************************************************************************)
(* Two runs at the same time against one store: the processes share        *)
(* nothing but the server, and every request of one may fall between two   *)
(* requests of the other.                                                  *)
(***************************************************************************)
Racers == {1, 2}

InitConc ==
    /\ \E s \in Scripts : run = [r \in Runs |-> InitRun(s)]
    /\ store \in {Store(pl, <<>>, FALSE, "free_stores") : pl \in PortListStores}
    /\ fs = {}

NextConc == \E r \in Racers : Next1(r)

SpecConc == InitConc /\ [][NextConc]_vars

(***************************************************************************)
(* A run with no bound on its polls.  The log keeps the first              *)
(* MaxDiscoverPolls and MaxStatusPolls passes of each loop; a later pass   *)
(* that ends in the sleep is not logged and takes the run back to the top  *)
(* of its loop.  Every request returns, with any response, and the run is     *)
(* scheduled as long as it has a step to take.                             *)
(***************************************************************************)
\* a pass of the discovery loop after the logged ones
DiscoverAgain(r) ==
    /\ run[r].pc = "discover_poll"
    /\ CountAt(run[r].log, "discover_poll", "get_task") >= MaxDiscoverPolls
    /\ \E resp \in TaskResponses(r) :
          LET snap == resp.body
              e == Entry(run[r].pc, "get_task", run[r].task_id, snap)
          IN run' = [run EXCEPT ![r] =
                IF resp.raised THEN Crash(r, "get_task", run[r].task_id)
                ELSE IF snap.last_report # <<>>
                THEN [At(r, "status_poll", e) EXCEPT
                         !.task = snap, !.status = snap.status,
                         !.report_ids = snap.last_report,
                         !.report_id = First(snap.last_report)]
                ELSE IF StoppedBeforeReport(snap.status)
                THEN [Fail(r, e) EXCEPT !.task = snap, !.status = snap.status]
                ELSE [run[r] EXCEPT !.task = snap, !.status = snap.status,
                                    !.pc = "discover_sleep_again"]]
    /\ UNCHANGED <<store, fs>>

\* a pass of the status loop after the logged ones
StatusAgain(r) ==
    /\ run[r].pc = "status_poll"
    /\ CountAt(run[r].log, "status_poll", "get_task") >= MaxStatusPolls
    /\ \E resp \in TaskResponses(r) :
          LET snap == resp.body
              e == Entry(run[r].pc, "get_task", run[r].task_id, snap.status)
          IN run' = [run EXCEPT ![r] =
                IF resp.raised THEN Crash(r, "get_task", run[r].task_id)
                ELSE IF IsTerminal(snap.status)
                THEN [At(r, IF run[r].script = "hoge" THEN "fetch_report"
                                                       ELSE "get_report", e)
                         EXCEPT !.task = snap, !.status = snap.status]
                ELSE [run[r] EXCEPT !.task = snap, !.status = snap.status,
                                    !.pc = "status_sleep_again"]]
    /\ UNCHANGED <<store, fs>>

\* time.sleep(POLL_INTERVAL) at the end of such a pass
SleepAgain(r) ==
    /\ run[r].pc \in {"discover_sleep_again", "status_sleep_again"}
    /\ run' = [run EXCEPT ![r].pc =
                 IF run[r].pc = "discover_sleep_again" THEN "discover_poll"
                                                       ELSE "status_poll"]
    /\ UNCHANGED <<store, fs>>

\* port lists each script gets past: hoge.py needs the default one, the
\* other script is given none of that name and takes its fallback
LivePortLists(script) ==
    IF script = "hoge" THEN DefaultPortLists
    ELSE << PortList("P1", <<"All IANA">>), PortList("P2", <<"All TCP">>) >>

InitLive ==
    /\ \E s \in Scripts :
          /\ run = [r \in Runs |-> InitRun(s)]
          /\ store = Store(LivePortLists(s), <<>>, FALSE, "free_tasks")
    /\ fs = {}

NextLive == Next1(1) \/ DiscoverAgain(1) \/ StatusAgain(1) \/ SleepAgain(1)

SpecLive == InitLive /\ [][NextLive]_vars /\ WF_vars(NextLive)

(***************************************************************************)
(* Reading a log.                                                          *)
(***************************************************************************)
Log(r) == run[r].log

\* the positions of the get_task requests run r issued in the loop at `at`
\* and got an answer to
AnsweredPolls(r, at) ==
    {i \in 1..Len(Log(r)) :
        Log(r)[i].at = at /\ Log(r)[i].op = "get_task" /\ ~Log(r)[i].raised}

\* the positions of everything run r did in the discovery loop
DiscoveryEntries(r) ==
    {i \in 1..Len(Log(r)) : Log(r)[i].at \in {"discover_poll", "discover_sleep"}}

\* the positions of everything run r did in the status loop
StatusEntries(r) ==
    {i \in 1..Len(Log(r)) : Log(r)[i].at \in {"status_poll", "status_sleep"}}

SleepsAt(r, at) ==
    {i \in 1..Len(Log(r)) : Log(r)[i].at = at /\ Log(r)[i].op = "sleep"}

\* the start_task response of run r carried no report id
StartedWithoutReportId(r) ==
    \E i \in 1..Len(Log(r)) :
        Log(r)[i].op = "start_task" /\ ~Log(r)[i].raised /\ Log(r)[i].res = <<>>

(***************************************************************************)
(* C1.  Report-id discovery, success exit: when the start_task response    *)
(* carries no report id, the first N get_task responses of the discovery   *)
(* have no last report and a status that is neither Stopped nor            *)
(* Interrupted, and the (N+1)-th has a last report, then the discovery     *)
(* has issued exactly N+1 get_task requests and slept exactly N times, it  *)
(* is over without a failure, and the report id is the first last-report   *)
(* id of the (N+1)-th response.                                            *)
(***************************************************************************)
DiscoverySucceededAt(r, i) ==
    /\ i \in AnsweredPolls(r, "discover_poll")
    /\ StartedWithoutReportId(r)
    /\ Log(r)[i].res.last_report # <<>>
    /\ \A j \in AnsweredPolls(r, "discover_poll") :
          j < i => /\ Log(r)[j].res.last_report = <<>>
                   /\ Log(r)[j].res.status \notin {"Stopped", "Interrupted"}

DiscoverySuccessExit ==
    \A r \in Runs : \A i \in 1..Len(Log(r)) :
        DiscoverySucceededAt(r, i) =>
            LET n == Cardinality({j \in AnsweredPolls(r, "discover_poll") : j < i})
            IN /\ Cardinality({j \in DiscoveryEntries(r) :
                                  Log(r)[j].op = "get_task"}) = n + 1
               /\ Cardinality(SleepsAt(r, "discover_sleep")) = n
               /\ \A j \in DiscoveryEntries(r) : j <= i
               /\ run[r].report_id = Log(r)[i].res.last_report[1]
               /\ run[r].pc \notin {"discover_poll", "discover_sleep"}
               /\ i = Len(Log(r)) => run[r].pc = "status_poll"

\* a discovery that found the report id R2 at its second get_task
DiscoverySuccessWitness ==
    \E r \in Runs :
        /\ run[r].pc = "status_poll"
        /\ Cardinality(AnsweredPolls(r, "discover_poll")) = 2
        /\ Cardinality(SleepsAt(r, "discover_sleep")) = 1
        /\ DiscoverySucceededAt(r, Len(Log(r)))
        /\ Log(r)[Len(Log(r))].res.last_report = <<"R2", "R1">>
        /\ run[r].report_id = "R2"

(***************************************************************************)
(* C2.  Report-id discovery, failure exit: a get_task response of the      *)
(* discovery with no last report and status Stopped or Interrupted is the  *)
(* last thing the run does: it exits with code 1 at that poll, with no     *)
(* further sleep, get_task or get_report, and no report file is written.   *)
(***************************************************************************)
StoppedWithoutReportAt(r, i) ==
    /\ i \in AnsweredPolls(r, "discover_poll")
    /\ StartedWithoutReportId(r)
    /\ Log(r)[i].res.last_report = <<>>
    /\ Log(r)[i].res.status \in {"Stopped", "Interrupted"}

DiscoveryFailureExit ==
    \A r \in Runs : \A i \in 1..Len(Log(r)) :
        StoppedWithoutReportAt(r, i) =>
            /\ i = Len(Log(r))
            /\ run[r].pc = "failed"
            /\ run[r].exit_code = 1
            /\ Count(Log(r), "get_report") = 0
            /\ Count(Log(r), "write") = 0
            /\ fs = {}

\* a discovery that slept once and then saw the task Interrupted
DiscoveryFailureWitness ==
    \E r \in Runs :
        /\ run[r].pc = "failed"
        /\ Cardinality(SleepsAt(r, "discover_sleep")) = 1
        /\ StoppedWithoutReportAt(r, Len(Log(r)))
        /\ Log(r)[Len(Log(r))].res.status = "Interrupted"

(***************************************************************************)
(* C3.  Direct report-id resolution: when the start_task response carries  *)
(* report ids, the first of them is the run's report id and the discovery  *)
(* loop is never entered: the run issues no get_task and no sleep of the   *)
(* discovery, and what follows start_task is the first get_task of the     *)
(* status loop.                                                            *)
(***************************************************************************)
StartedWithReportId(r, i) ==
    /\ i \in 1..Len(Log(r))
    /\ Log(r)[i].op = "start_task"
    /\ ~Log(r)[i].raised
    /\ Log(r)[i].res # <<>>

DirectResolution ==
    \A r \in Runs : \A i \in 1..Len(Log(r)) :
        StartedWithReportId(r, i) =>
            /\ run[r].report_id = Log(r)[i].res[1]
            /\ DiscoveryEntries(r) = {}
            /\ i = Len(Log(r)) => run[r].pc = "status_poll"
            /\ i < Len(Log(r)) => /\ Log(r)[i + 1].op = "get_task"
                                  /\ Log(r)[i + 1].at = "status_poll"

\* a start response with the ids R1, R2, followed by a status poll
DirectResolutionWitness ==
    \E r \in Runs :
        /\ StartedWithReportId(r, Len(Log(r)) - 1)
        /\ Log(r)[Len(Log(r)) - 1].res = <<"R1", "R2">>
        /\ Log(r)[Len(Log(r))].op = "get_task"
        /\ ~Log(r)[Len(Log(r))].raised
        /\ run[r].report_id = "R1"

(***************************************************************************)
(* C4.  Status Poller exit condition: after a get_task response whose      *)
(* status is not Done, Stopped or Interrupted the status loop sleeps once  *)
(* and polls again; after the first response whose status is one of the    *)
(* three it leaves the loop: no sleep and no get_task follow, the next     *)
(* request is get_report.  So the get_task requests of the loop number     *)
(* the position of the first terminal response.                            *)
(***************************************************************************)
StatusPollerExit ==
    \A r \in Runs : \A i \in AnsweredPolls(r, "status_poll") :
        LET last == i = Len(Log(r))
            terminal == Log(r)[i].res \in {"Done", "Stopped", "Interrupted"}
        IN /\ ~terminal =>
                /\ last => run[r].pc = "status_sleep"
                /\ ~last => /\ Log(r)[i + 1].op = "sleep"
                            /\ Log(r)[i + 1].at = "status_sleep"
                /\ i + 1 = Len(Log(r)) => run[r].pc = "status_poll"
                /\ i + 1 < Len(Log(r)) => /\ Log(r)[i + 2].op = "get_task"
                                          /\ Log(r)[i + 2].at = "status_poll"
           /\ terminal =>
                /\ \A j \in StatusEntries(r) : j <= i
                /\ Cardinality({j \in StatusEntries(r) :
                                   Log(r)[j].op = "get_task"})
                      = Cardinality({j \in AnsweredPolls(r, "status_poll") :
                                        j <= i})
                /\ last => run[r].pc \in {"get_report", "fetch_report"}
                /\ ~last => Log(r)[i + 1].op = "get_report"

\* a status loop that saw Running, slept, saw Stopped and went on to get_report
StatusPollerWitness ==
    \E r \in Runs :
        /\ LET polls == AnsweredPolls(r, "status_poll")
           IN /\ Cardinality(polls) = 2
              /\ \E i, j \in polls :
                    /\ i < j
                    /\ Log(r)[i].res = "Running"
                    /\ Log(r)[j].res = "Stopped"
        /\ Cardinality(SleepsAt(r, "status_sleep")) = 1
        /\ Count(Log(r), "get_report") >= 1

(***************************************************************************)
(* C5.  Fallback port-list widening, in every script: an empty filtered    *)
(* lookup followed by a non-empty unfiltered one resolves to the first     *)
(* unfiltered id; two empty lookups end the run with exit code 1 before    *)
(* any target request; a non-empty filtered lookup resolves to its first   *)
(* id and no second lookup is issued.                                      *)
(***************************************************************************)
\* the position of the answered lookup run r issued at `at`, if any
LookupAt(r, at) ==
    {i \in 1..Len(Log(r)) : Log(r)[i].at = at /\ ~Log(r)[i].raised}

FallbackWidening ==
    \A r \in Runs :
        /\ \A i \in LookupAt(r, "port_lists") :
              Log(r)[i].res # <<>> =>
                  /\ run[r].port_list_id = Log(r)[i].res[1]
                  /\ LookupAt(r, "port_lists_all") = {}
                  /\ CountAt(Log(r), "port_lists_all", FallbackOp(run[r].script)) = 0
        /\ \A i \in LookupAt(r, "port_lists_all") :
              /\ Log(r)[i].res # <<>> =>
                    /\ run[r].port_list_id = Log(r)[i].res[1]
                    /\ i = Len(Log(r)) => run[r].pc = "get_targets"
              /\ Log(r)[i].res = <<>> =>
                    /\ i = Len(Log(r))
                    /\ run[r].pc = "failed"
                    /\ run[r].exit_code = 1

(***************************************************************************)
(* C6.  Target selection on a hit: when the name-filtered target lookup    *)
(* returns one or more targets, the run uses the id of the first of them   *)
(* and issues no create_target.                                            *)
(***************************************************************************)
FirstTargetSelected ==
    \A r \in Runs : \A i \in LookupAt(r, "get_targets") :
        Log(r)[i].res # <<>> =>
            /\ run[r].target_id = Log(r)[i].res[1].id
            /\ Count(Log(r), "create_target") = 0

(***************************************************************************)
(* C7.  Idempotent target resolution across sequential runs: from a store  *)
(* with no target of the runs' name, the store never holds more than one   *)
(* target of that name; every run that resolves its target resolves to     *)
(* the id of that one target; when the first run resolves its target it    *)
(* does so by the only create_target request of all the runs; no run       *)
(* after one that resolved its target issues create_target; and            *)
(* create_target is answered with an id at most once.                      *)
(***************************************************************************)
\* the targets of the runs' name in the store
NamedTargets ==
    {i \in 1..Len(store.targets) :
        store.targets[i].name = TargetName(SCAN_TARGETS)}

\* run r is past its target resolution with an id
ResolvedTarget(r) ==
    /\ ~Falsy(run[r].target_id)
    /\ \E i \in 1..Len(Log(r)) : Log(r)[i].at \in {"get_targets", "create_target"}

\* the create_target requests of all runs
CreateTargetRequests ==
    {<<r, i>> \in Runs \X (1..20) :
        i <= Len(Log(r)) /\ Log(r)[i].op = "create_target"}

IdempotentTargetResolution ==
    /\ Cardinality(NamedTargets) <= 1
    /\ \A r \in Runs :
          ResolvedTarget(r) =>
              \E i \in NamedTargets : store.targets[i].id = run[r].target_id
    /\ \A r, q \in Runs :
          ResolvedTarget(r) /\ ResolvedTarget(q) => run[r].target_id = run[q].target_id
    /\ ResolvedTarget(1) =>
          /\ Cardinality(CreateTargetRequests) = 1
          /\ \A x \in CreateTargetRequests : x[1] = 1
    /\ \A r, q \in Runs :
          r < q /\ ResolvedTarget(r) => Count(Log(q), "create_target") = 0
    /\ Cardinality({x \in CreateTargetRequests :
                       /\ ~Log(x[1])[x[2]].raised
                       /\ Log(x[1])[x[2]].res \notin {None, ""}}) <= 1

\* every run has ended with a target id, the first by the one create_target
IdempotentTargetWitness ==
    /\ \A r \in Runs : Terminated(r) /\ ResolvedTarget(r)
    /\ Cardinality(CreateTargetRequests) = 1
    /\ \A r \in Runs : r > 1 => Count(Log(r), "get_targets") = 1
    /\ Cardinality(NamedTargets) = 1

(***************************************************************************)
(* C8.  No partial success: a run writes a file only after                 *)
(* authentication, port-list and target resolution, task creation, task    *)
(* start, report-id resolution, status polling, report fetch and payload   *)
(* decoding have all succeeded, in that order; a run that ends with exit   *)
(* code 1 has written no file; a run that exits 0 has written exactly one  *)
(* file, {REPORT_DIR}/{report_id}.pdf, holding the decoded payload.        *)
(***************************************************************************)
\* run r has exited with this code
Exited(r, code) ==
    run[r].pc \in {"done", "failed", "crashed"} /\ run[r].exit_code = code

\* the files run r has written
Writes(r) == {i \in 1..Len(Log(r)) : Log(r)[i].op = "write"}

\* positions i1 < ... < i8 of the log of run r hold the stages, each
\* answered with what the run went on with
StagesAt(r, i1, i2, i3, i4, i5, i6, i7, i8) ==
    LET log == Log(r)
    IN /\ log[i1].op = "authenticate"
       /\ log[i2].op \in {"get_port_lists", "get_port_list"}
       /\ log[i2].res # <<>>
       /\ log[i2].res[1] = run[r].port_list_id
       /\ \/ log[i3].op = "get_targets" /\ log[i3].res # <<>>
          \/ log[i3].op = "create_target" /\ log[i3].res = run[r].target_id
       /\ run[r].target_id \notin {None, ""}
       /\ log[i4].op = "create_task"
       /\ log[i4].res = run[r].task_id
       /\ run[r].task_id \notin {None, ""}
       /\ log[i5].op = "start_task"
       /\ \/ log[i5].res # <<>> /\ log[i5].res[1] = run[r].report_id /\ i6 = i5
          \/ /\ i6 > i5
             /\ log[i6].at = "discover_poll"
             /\ log[i6].op = "get_task"
             /\ log[i6].res.last_report # <<>>
             /\ log[i6].res.last_report[1] = run[r].report_id
       /\ log[i7].at = "status_poll"
       /\ log[i7].op = "get_task"
       /\ log[i7].res \in {"Done", "Stopped", "Interrupted"}
       /\ log[i8].at = "fetch_report"
       /\ log[i8].op = "get_report"
       /\ Extraction(run[r].script, log[i8].res).outcome = "ok"
       /\ Extraction(run[r].script, log[i8].res).bytes = run[r].pdf_bytes

AllStagesSucceeded(r) ==
    LET n == Len(Log(r))
    IN /\ \A i \in 1..n : ~Log(r)[i].raised
       /\ \E i2 \in 2..n : \E i3 \in (i2 + 1)..n : \E i4 \in (i3 + 1)..n :
          \E i6 \in (i4 + 1)..n : \E i7 \in (i6 + 1)..n :
             StagesAt(r, 1, i2, i3, i4, i4 + 1, i6, i7, n - 1)
             /\ i7 < n - 1

NoPartialSuccess ==
    \A r \in Runs :
        /\ Writes(r) # {} =>
              /\ Writes(r) = {Len(Log(r))}
              /\ AllStagesSucceeded(r)
              /\ Exited(r, 0)
        /\ Exited(r, 1) => Writes(r) = {} /\ fs = {}
        /\ Exited(r, 0) =>
              /\ Cardinality(Writes(r)) = 1
              /\ \A i \in Writes(r) :
                    Log(r)[i].arg = <<REPORT_DIR, "/", run[r].report_id, ".pdf">>
              /\ fs = {[path |-> <<REPORT_DIR, "/", run[r].report_id, ".pdf">>,
                        bytes |-> run[r].pdf_bytes]}
        /\ fs # {} => \E q \in Runs : Exited(q, 0)

\* a run has ended with exit code 0 and its file
NoPartialSuccessWitness ==
    \E r \in Runs :
        /\ run[r].pc = "done"
        /\ run[r].exit_code = 0
        /\ Cardinality(fs) = 1
        /\ AllStagesSucceeded(r)

(***************************************************************************)
(* C9.  Format-dependent extraction: a run that fetches a report whose     *)
(* first node with non-empty trimmed text holds an XML body writes that    *)
(* text verbatim to {REPORT_DIR}/{report_id}.xml and exits 0.              *)
(***************************************************************************)
\* the answered fetches of run r whose payload is read
Fetches(r) ==
    {i \in 1..Len(Log(r)) :
        /\ Log(r)[i].at = "fetch_report"
        /\ Log(r)[i].op = "get_report"
        /\ ~Log(r)[i].raised}

XmlReportWritten ==
    \A r \in Runs : \A i \in Fetches(r) :
        Log(r)[i].res = << Node(XmlText) >> =>
            /\ run[r].pc \in {"write", "done"}
            /\ run[r].pc = "done" =>
                  /\ run[r].exit_code = 0
                  /\ fs = {[path |-> <<REPORT_DIR, "/", run[r].report_id, ".xml">>,
                            bytes |-> XmlText]}

(***************************************************************************)
(* C10.  Base64 plausibility and node selection, in every script: a        *)
(* report node qualifies iff its trimmed text is longer than 200           *)
(* characters, each alphanumeric or one of + / =; the payload decoded is   *)
(* that of the first qualifying node in response order, and the run fails  *)
(* when no node qualifies.                                                 *)
(***************************************************************************)
Qualifies(node) ==
    /\ node.has_text
    /\ Len(Strip(node.text)) > 200
    /\ \A i \in 1..Len(Strip(node.text)) :
          IsAlnum(Strip(node.text)[i]) \/ Strip(node.text)[i] \in {"+", "/", "="}

Qualifying(nodes) == {k \in 1..Len(nodes) : Qualifies(nodes[k])}

FirstQualifying(nodes) ==
    CHOOSE k \in Qualifying(nodes) : \A j \in Qualifying(nodes) : k <= j

PlausiblePayloadSelected ==
    \A r \in Runs : \A i \in Fetches(r) :
        LET nodes == Log(r)[i].res
        IN /\ Qualifying(nodes) = {} =>
                 /\ run[r].pc = "failed"
                 /\ run[r].exit_code = 1
           /\ Qualifying(nodes) # {} =>
                 LET pdf == B64Decode(Strip(nodes[FirstQualifying(nodes)].text))
                 IN IF pdf.ok
                    THEN /\ run[r].pc \in {"write", "done"}
                         /\ run[r].pdf_bytes = pdf.bytes
                    ELSE run[r].pc = "failed"

(***************************************************************************)
(* C11.  Round-trip decode: when the report node text of the get_report    *)
(* response is the base64 encoding of bytes B, the extraction succeeds     *)
(* and the bytes written to the report file are exactly B.                 *)
(***************************************************************************)
RoundTripDecode ==
    \A r \in Runs : \A i \in Fetches(r) : \A b \in Payloads :
        Log(r)[i].res = EncodedBodies[b] =>
            /\ run[r].pc \in {"write", "done"}
            /\ run[r].pdf_bytes = b
            /\ run[r].pc = "done" =>
                  fs = {[path |-> OutFile(run[r].report_id), bytes |-> b]}

(***************************************************************************)
(* C12.  Best-effort lookup-before-create under concurrency: of two runs   *)
(* at the same time against a store without a target of their name, no    *)
(* run issues create_target more than once, and a run issues it only      *)
(* after its own lookup returned no target; nothing keeps both from doing  *)
(* so, and the store then holds two targets of the name.                   *)
(***************************************************************************)
\* the answered target lookup of run r returned nothing
LookupMissed(r) ==
    \E i \in LookupAt(r, "get_targets") : Log(r)[i].res = <<>>

LookupBeforeCreate ==
    /\ \A r \in Runs :
          /\ Count(Log(r), "create_target") <= 1
          /\ Count(Log(r), "get_targets") <= 1
          /\ Count(Log(r), "create_target") = 1 => LookupMissed(r)
    /\ Cardinality(NamedTargets) <= Cardinality(CreateTargetRequests)
    /\ Cardinality(NamedTargets) <= Cardinality(Racers)

\* both runs missed, both created: two targets of one name, and each run
\* goes on with its own
CreateRaceWitness ==
    /\ \A r \in Racers : LookupMissed(r) /\ Count(Log(r), "create_target") = 1
    /\ Cardinality(NamedTargets) = 2
    /\ run[1].target_id # run[2].target_id
    /\ \A r \in Racers : ResolvedTarget(r)

(***************************************************************************)
(* C13.  Reuse after an aborted run: when a run was terminated after it    *)
(* had created its target and its task, a later run issues neither         *)
(* create_target nor create_task, and the store holds one target and one   *)
(* task of the runs' names.                                                *)
(***************************************************************************)
\* run r got an id from op
CreatedBy(r, op) ==
    \E i \in 1..Len(Log(r)) :
        /\ Log(r)[i].op = op
        /\ ~Log(r)[i].raised
        /\ Log(r)[i].res \notin {None, ""}

\* the tasks in the store for the runs' target name
NamedTasks ==
    {i \in 1..Len(store.tasks) :
        \E j \in NamedTargets : store.tasks[i].target_id = store.targets[j].id}

ReuseAfterAbort ==
    \A r, q \in Runs :
        /\ r < q
        /\ run[r].pc = "killed"
        /\ CreatedBy(r, "create_target")
        /\ CreatedBy(r, "create_task")
        => /\ Count(Log(q), "create_target") = 0
           /\ Count(Log(q), "create_task") = 0
           /\ Cardinality(NamedTargets) = 1
           /\ Cardinality(NamedTasks) = 1

(***************************************************************************)
(* C14.  Stage ordering: the requests of a run come in the order           *)
(* authenticate, port-list lookup(s), target lookup, optional              *)
(* create_target, create_task, start_task, get_task polls, get_report,     *)
(* file write; a request is issued only after the stages before it         *)
(* succeeded; create_target carries the port-list id resolved in the run,  *)
(* create_task the resolved target id, start_task and every get_task the   *)
(* id create_task returned.                                                *)
(***************************************************************************)
StageOf(op) ==
    CASE op = "authenticate" -> 1
      [] op \in {"get_port_lists", "get_port_list"} -> 2
      [] op = "get_targets" -> 3
      [] op = "create_target" -> 4
      [] op = "create_task" -> 5
      [] op = "start_task" -> 6
      [] op \in {"get_task", "sleep"} -> 7
      [] op = "get_report" -> 8
      [] op = "write" -> 9

\* what the request at position j of run r needs from the requests before
\* it; only the last entry of a log may have raised
StageReady(r, j) ==
    LET log == Log(r)
        k == StageOf(log[j].op)
        earlier == 1..(j - 1)
        portlist(i) == log[i].op \in {"get_port_lists", "get_port_list"}
        ids(i) == {log[i].res[n].id : n \in 1..Len(log[i].res)}
    IN /\ j > 1 => ~log[j - 1].raised /\ StageOf(log[j - 1].op) <= k
       /\ k = 1 <=> j = 1
       /\ k >= 3 => \E i \in earlier : portlist(i) /\ log[i].res # <<>>
       /\ k = 3 => \A i \in earlier : log[i].op # "get_targets"
       /\ k = 4 =>
             /\ \E i \in earlier : log[i].op = "get_targets" /\ log[i].res = <<>>
             /\ \A i \in earlier : log[i].op # "create_target"
             /\ \E i \in earlier :
                   /\ portlist(i)
                   /\ log[i].res # <<>>
                   /\ log[j].arg.port_list_id = log[i].res[1]
       /\ k >= 5 =>
             \E i \in earlier :
                \/ log[i].op = "get_targets" /\ log[i].res # <<>>
                \/ log[i].op = "create_target" /\ log[i].res \notin {None, ""}
       /\ k = 5 =>
             /\ \A i \in earlier : log[i].op # "create_task"
             /\ \E i \in earlier :
                   \/ /\ log[i].op = "get_targets"
                      /\ log[j].arg.target_id \in ids(i)
                   \/ /\ log[i].op = "create_target"
                      /\ log[j].arg.target_id = log[i].res
       /\ k >= 6 =>
             \E i \in earlier :
                /\ log[i].op = "create_task"
                /\ log[i].res \notin {None, ""}
                /\ log[j].op \in {"start_task", "get_task"} =>
                      log[j].arg = log[i].res
       /\ k = 6 => \A i \in earlier : log[i].op # "start_task"
       /\ k >= 7 => \E i \in earlier : log[i].op = "start_task"
       /\ k >= 8 =>
             /\ \E i \in earlier :
                   \/ log[i].op = "start_task" /\ log[i].res # <<>>
                   \/ /\ log[i].at = "discover_poll"
                      /\ log[i].op = "get_task"
                      /\ log[i].res.last_report # <<>>
             /\ \E i \in earlier :
                   log[i].at = "status_poll" /\ log[i].op = "get_task"
       /\ k = 9 =>
             \E i \in earlier :
                log[i].op = "get_report" /\ log[i].at = "fetch_report"

StageOrdering ==
    \A r \in Runs : \A j \in 1..Len(Log(r)) : StageReady(r, j)

\* a run went through every stage, the optional one included
StageOrderingWitness ==
    \E r \in Runs :
        /\ run[r].pc = "done"
        /\ \A k \in 1..9 : \E j \in 1..Len(Log(r)) : StageOf(Log(r)[j].op) = k

(***************************************************************************)
(* C15.  Permissive terminal handling: get_report is never issued before   *)
(* the status loop has seen Done, Stopped or Interrupted, and once it has  *)
(* seen one of the three the run does not fail there: the request that     *)
(* follows is get_report.                                                  *)
(***************************************************************************)
\* the polls of the status loop of run r that saw a terminal status
TerminalSeen(r) ==
    {i \in StatusEntries(r) :
        /\ Log(r)[i].op = "get_task"
        /\ ~Log(r)[i].raised
        /\ Log(r)[i].res \in {"Done", "Stopped", "Interrupted"}}

PermissiveTerminal ==
    \A r \in Runs :
        /\ \A j \in 1..Len(Log(r)) :
              Log(r)[j].op = "get_report" => \E i \in TerminalSeen(r) : i < j
        /\ \A i \in TerminalSeen(r) :
              IF i = Len(Log(r))
              THEN run[r].pc \in {"get_report", "fetch_report"}
              ELSE Log(r)[i + 1].op = "get_report"

\* the status loop saw Stopped or Interrupted and the report was asked for
PermissiveTerminalWitness ==
    \E r \in Runs : \E i \in TerminalSeen(r) :
        /\ Log(r)[i].res \in {"Stopped", "Interrupted"}
        /\ i < Len(Log(r))
        /\ Log(r)[i + 1].op = "get_report"
        /\ ~Log(r)[i + 1].raised

(***************************************************************************)
(* C16.  Only polling is repeated: within a run the only request issued    *)
(* more than once with the same arguments is get_task; authenticate,       *)
(* create_target, create_task, start_task and get_report are each issued   *)
(* at most once, and nothing follows a failed request.                     *)
(***************************************************************************)
\* the positions of the requests of run r (a sleep is no request)
Requests(r) == {i \in 1..Len(Log(r)) : Log(r)[i].op \notin {"sleep", "write"}}

OnlyPollingRepeated ==
    \A r \in Runs :
        /\ \A i, j \in Requests(r) :
              /\ i < j
              /\ Log(r)[i].op = Log(r)[j].op
              /\ Log(r)[i].arg = Log(r)[j].arg
              => Log(r)[i].op = "get_task"
        /\ \A op \in {"authenticate", "create_target", "create_task",
                      "start_task", "get_report"} : Count(Log(r), op) <= 1
        /\ run[r].pc \in {"failed", "crashed"} =>
              \A i \in 1..(Len(Log(r)) - 1) : ~Log(r)[i].raised

(***************************************************************************)
(* C17.  Creation without an id is a hard failure: when create_target or   *)
(* create_task is answered without an id, or with an empty one, the run    *)
(* ends there with exit code 1: no request and no write follows; and       *)
(* start_task is never issued with a missing or empty task id.             *)
(***************************************************************************)
\* the creations of run r that were answered without an id
CreatedWithoutId(r) ==
    {i \in 1..Len(Log(r)) :
        /\ Log(r)[i].op \in {"create_target", "create_task"}
        /\ ~Log(r)[i].raised
        /\ Log(r)[i].res \in {None, ""}}

CreationWithoutIdFails ==
    \A r \in Runs :
        /\ \A i \in CreatedWithoutId(r) :
              /\ i = Len(Log(r))
              /\ run[r].pc = "failed"
              /\ run[r].exit_code = 1
              /\ Count(Log(r), Log(r)[i].op) = 1
        /\ \A j \in 1..Len(Log(r)) :
              Log(r)[j].op = "start_task" => Log(r)[j].arg \notin {None, ""}

\* one run ended on a create_target without id, the next on a create_task
\* with an empty one
CreationWithoutIdWitness ==
    \E r, q \in Runs :
        /\ run[r].pc = "failed" /\ run[q].pc = "failed"
        /\ \E i \in CreatedWithoutId(r) :
              Log(r)[i].op = "create_target" /\ Log(r)[i].res = None
        /\ \E i \in CreatedWithoutId(q) :
              Log(q)[i].op = "create_task" /\ Log(q)[i].res = ""

(***************************************************************************)
(* C18.  Termination under the unbounded wait: when every request returns  *)
(* and the run keeps being scheduled, a task whose status becomes          *)
(* Stopped or Interrupted and stays so, or becomes Done, Stopped or        *)
(* Interrupted and stays so once the run holds a report id, lets the run   *)
(* terminate.  (As first stated: whenever the status becomes Done,         *)
(* Stopped or Interrupted and stays so.)                                   *)
(***************************************************************************)
\* the last status the run was told
StaysTerminal == run[1].status \in {"Done", "Stopped", "Interrupted"}

\* as first stated
TerminatesOnTerminalStatus == (<>[]StaysTerminal) => <>Terminated(1)

\* the status is one that ends the loop the run is in
StaysEnding ==
    \/ run[1].status \in {"Stopped", "Interrupted"}
    \/ StaysTerminal /\ run[1].report_id # None

TerminatesOnEndingStatus == (<>[]StaysEnding) => <>Terminated(1)

\* a run ended after more passes of both loops than the log holds
TerminationWitness ==
    /\ run[1].pc = "done"
    /\ StaysEnding
    /\ StartedWithoutReportId(1)
    /\ CountAt(Log(1), "discover_poll", "get_task") > MaxDiscoverPolls
    /\ CountAt(Log(1), "status_poll", "get_task") > MaxStatusPolls

(***************************************************************************)
(* C19.  The task handle is frozen after the handshake: from the           *)
(* response that resolved the report id on, the run's task id is the one   *)
(* create_task returned and its report id the one resolved, whatever the   *)
(* later get_task responses carry; every get_report is issued with that    *)
(* report id and the file written is named after it.                       *)
(***************************************************************************)
\* the responses of run r that carried a report id while it had none: the
\* start response, or a poll of the discovery loop
Handshakes(r) ==
    {i \in 1..Len(Log(r)) :
        /\ ~Log(r)[i].raised
        /\ \/ Log(r)[i].op = "start_task" /\ Log(r)[i].res # <<>>
           \/ /\ Log(r)[i].at = "discover_poll"
              /\ Log(r)[i].op = "get_task"
              /\ Log(r)[i].res.last_report # <<>>}

\* the report id of the response at position i
HandshakeId(r, i) ==
    IF Log(r)[i].op = "start_task" THEN Log(r)[i].res[1]
    ELSE Log(r)[i].res.last_report[1]

HandleFrozen ==
    \A r \in Runs :
        /\ Cardinality(Handshakes(r)) <= 1
        /\ Handshakes(r) = {} =>
              /\ run[r].report_id = None
              /\ Count(Log(r), "get_report") = 0
              /\ Count(Log(r), "write") = 0
        /\ \A h \in Handshakes(r) :
              /\ run[r].report_id = HandshakeId(r, h)
              /\ \E c \in 1..(h - 1) :
                    /\ Log(r)[c].op = "create_task"
                    /\ Log(r)[c].res = run[r].task_id
              /\ \A j \in 1..Len(Log(r)) :
                    /\ Log(r)[j].op \in {"start_task", "get_task"} =>
                          Log(r)[j].arg = run[r].task_id
                    /\ Log(r)[j].op = "get_report" =>
                          j > h /\ Log(r)[j].arg.report_id = HandshakeId(r, h)
                    /\ Log(r)[j].op = "write" =>
                          /\ j > h
                          /\ Log(r)[j].arg =
                                <<REPORT_DIR, "/", HandshakeId(r, h), ".pdf">>
                          /\ \A f \in fs : f.path = Log(r)[j].arg

\* the run wrote its file after a status poll showed another last report
\* than the one resolved
HandleFrozenWitness ==
    \E r \in Runs : \E h \in Handshakes(r) :
        /\ run[r].pc = "done"
        /\ run[r].task.last_report # <<>>
        /\ run[r].task.last_report[1] # HandshakeId(r, h)
        /\ run[r].report_id = HandshakeId(r, h)

(***************************************************************************)
(* What a run prints about a target it found: one line with the id it      *)
(* goes on with, "[INFO] Reusing existing target id = ..." in              *)
(* run_openvas_scan.py and a line without a level in hoge.py.  Neither     *)
(* script compares the names of the targets returned with the name asked   *)
(* for.                                                                    *)
(***************************************************************************)
ReuseMessage(script, target_id) ==
    [level |-> IF script = "hoge" THEN "" ELSE "INFO", target_id |-> target_id]

\* the lines run r has printed on its target lookup
HitMessages(r) ==
    {ReuseMessage(run[r].script, run[r].target_id) :
        i \in {j \in LookupAt(r, "get_targets") : Log(r)[j].res # <<>>}}

Warnings(r) == {m \in HitMessages(r) : m.level = "WARNING"}

(***************************************************************************)
(* C20.  Defensive name check on a hit: the run prints a warning exactly   *)
(* when its target lookup returned a target whose name is not the name     *)
(* asked for, and goes on with the selected id.                            *)
(***************************************************************************)
\* the target lookups of run r that returned a target of another name
InexactHits(r) ==
    {i \in LookupAt(r, "get_targets") :
        \E n \in 1..Len(Log(r)[i].res) :
            Log(r)[i].res[n].name # TargetName(SCAN_TARGETS)}

NameCheckWarns ==
    \A r \in Runs :
        /\ InexactHits(r) # {} <=> Warnings(r) # {}
        /\ InexactHits(r) # {} => ~Falsy(run[r].target_id)
====
